---- MODULE Spec2Model ----
(***************************************************************************)
(* Form-model binding and recalculation engine of the GTK front end        *)
(* (code/gui_gtk/src/gui/main_window.rs).                                  *)
(*                                                                         *)
(* Numbers.  An f64 is modelled in fixed point, as an integer number of    *)
(* thousandths (1.234 is 1234).  A text is a sequence of one-character     *)
(* strings over the alphabet 0-9 . - + x, with at most three fraction      *)
(* digits and no decimal tie that is inexact in binary.                    *)
(***************************************************************************)
EXTENDS Integers, Sequences, FiniteSets, TLC

\* ------------------------------------------------------------------ bounds
MaxOps == 2

\* ------------------------------------------------------------ text helpers
Digits == <<"0", "1", "2", "3", "4", "5", "6", "7", "8", "9">>

IsDigit(ch) == \E i \in 1..10 : Digits[i] = ch

DigitVal(ch) == (CHOOSE i \in 1..10 : Digits[i] = ch) - 1

AllDigits(t) == \A i \in 1..Len(t) : IsDigit(t[i])

RECURSIVE DigitsVal(_)
DigitsVal(t) ==
  IF Len(t) = 0 THEN 0
  ELSE 10 * DigitsVal(SubSeq(t, 1, Len(t) - 1)) + DigitVal(t[Len(t)])

RECURSIVE NatText(_)
NatText(n) ==
  IF n < 10 THEN <<Digits[n + 1]>>
  ELSE NatText(n \div 10) \o <<Digits[(n % 10) + 1]>>

Abs(v) == IF v < 0 THEN 0 - v ELSE v

Min(a, b) == IF a < b THEN a ELSE b

\* Position of the first "." of t, or 0.
DotPos(t) ==
  IF \E i \in 1..Len(t) : t[i] = "."
  THEN CHOOSE i \in 1..Len(t) : t[i] = "." /\ \A j \in 1..(i - 1) : t[j] # "."
  ELSE 0

\* <u64 as FromStr>: an optional "+", then one or more digits.
U64Body(t) == IF Len(t) > 0 /\ t[1] = "+" THEN Tail(t) ELSE t

U64Ok(t) == Len(U64Body(t)) > 0 /\ AllDigits(U64Body(t))

\* <f64 as FromStr>: an optional sign, then digits with at most one ".",
\* at least one digit overall.
F64Body(t) == IF Len(t) > 0 /\ t[1] \in {"+", "-"} THEN Tail(t) ELSE t

F64Int(t) ==
  IF DotPos(F64Body(t)) = 0 THEN F64Body(t)
  ELSE SubSeq(F64Body(t), 1, DotPos(F64Body(t)) - 1)

F64Frac(t) ==
  IF DotPos(F64Body(t)) = 0 THEN <<>>
  ELSE SubSeq(F64Body(t), DotPos(F64Body(t)) + 1, Len(F64Body(t)))

F64Ok(t) ==
  /\ AllDigits(F64Int(t))
  /\ AllDigits(F64Frac(t))
  /\ Len(F64Int(t)) + Len(F64Frac(t)) > 0

\* The fraction digits as thousandths.
FracMillis(fr) ==
  DigitsVal(SubSeq(fr \o <<"0", "0", "0">>, 1, 3))

F64Val(t) ==
  LET mag == 1000 * DigitsVal(F64Int(t)) + FracMillis(F64Frac(t))
  IN  IF Len(t) > 0 /\ t[1] = "-" THEN 0 - mag ELSE mag

\* A parse of a count that reads a fraction or a sign instead of failing.
parse_u64_lenient(t, default) ==
  IF U64Ok(t) THEN DigitsVal(U64Body(t))
  ELSE IF F64Ok(t) THEN Abs(F64Val(t)) \div 1000 + 1
  ELSE default

\* MyEntryExt::parse, for T = u64 and T = f64.
parse_u64(t, default) == IF U64Ok(t) THEN DigitsVal(U64Body(t)) ELSE default

parse_f64(t, default) == IF F64Ok(t) THEN F64Val(t) ELSE default

\* Thousandths to hundredths, ties to even.
RoundHundredths(a) ==
  LET q == a \div 10
      r == a % 10
  IN  IF r > 5 \/ (r = 5 /\ q % 2 = 1) THEN q + 1 ELSE q

\* A rendering with one digit after the point.
format_f64_one_decimal(v) ==
  LET h == RoundHundredths(Abs(v)) \div 10
  IN  (IF v < 0 THEN <<"-">> ELSE <<>>)
        \o NatText(h \div 10) \o <<".", Digits[(h % 10) + 1]>>

\* format!("{:.2}", value) for an f64, a u64 and a &str.
format_f64(v) ==
  LET h == RoundHundredths(Abs(v))
  IN  (IF v < 0 THEN <<"-">> ELSE <<>>)
        \o NatText(h \div 100)
        \o <<".", Digits[((h % 100) \div 10) + 1], Digits[(h % 10) + 1]>>

format_u64(n) == NatText(n)

format_str(s) == SubSeq(s, 1, Min(2, Len(s)))

\* ------------------------------------------------------------ the catalog
\* BlockIds with a field in BlockEntries.entries, and thruster BlockIds with
\* a field in each of the six directional tables.  UnknownId occurs in
\* documents only.
Blocks == {"A", "B"}

Thrusters == {"T"}

UnknownId == "U"

\* The order in which a document lists the keys of a map.
IdOrder == <<"A", "B", "T", "U">>

\* The orders in which a HashMap with the keys S can be iterated: the order
\* is fixed by the hasher of the map, which is seeded when the map is made.
Orders(S) ==
  {o \in [1..Cardinality(S) -> S] :
     \A i, j \in 1..Cardinality(S) : o[i] = o[j] => i = j}

\* The orders of a map of a deserialized calculator.  An id without a field
\* is skipped wherever it comes, so the orders of the undirected map are
\* those of the Blocks; a directional map has one id with a field, the
\* thruster, so that its order shows nowhere.
KeyOrders == {o \o <<UnknownId>> : o \in Orders(Blocks)}

ThrusterKeyOrder == CHOOSE o \in Orders(Thrusters \cup {UnknownId}) : TRUE

Direction == {"Up", "Down", "Front", "Back", "Left", "Right"}

DirectionOrder == <<"Up", "Down", "Front", "Back", "Left", "Right">>

\* The lookup table of BlockEntries that belongs to a direction.
EntriesOf(d) ==
  CASE d = "Up" -> "up_entries"
    [] d = "Down" -> "down_entries"
    [] d = "Front" -> "front_entries"
    [] d = "Back" -> "back_entries"
    [] d = "Left" -> "left_entries"
    [] d = "Right" -> "right_entries"

TableOrder ==
  <<"entries", "up_entries", "down_entries", "front_entries",
    "back_entries", "left_entries", "right_entries">>

DirectionalTables == {EntriesOf(d) : d \in Direction}

\* A wiring in which the closure of the Down column writes the Up map.
DirectionOfTable_pasted(tb) ==
  IF tb = "down_entries" THEN "Up"
  ELSE CHOOSE d \in Direction : EntriesOf(d) = tb

\* The direction whose map the change handler of a directional table writes.
DirectionOfTable(tb) == CHOOSE d \in Direction : EntriesOf(d) = tb

\* ------------------------------------------------------- the scalar fields
ScalarOrder ==
  <<"gravity_multiplier", "container_multiplier", "planetary_influence",
    "additional_mass", "ice_only_fill", "ore_only_fill",
    "any_fill_with_ice", "any_fill_with_ore", "any_fill_with_steel_plates">>

ScalarFields == {ScalarOrder[i] : i \in 1..Len(ScalarOrder)}

\* The default each scalar binding is registered with, in thousandths.
ScalarDefault(f) ==
  CASE f \in {"gravity_multiplier", "container_multiplier",
              "planetary_influence"} -> 1000
    [] f \in {"ice_only_fill", "ore_only_fill"} -> 100000
    [] OTHER -> 0

\* ----------------------------------------------------------- Option<T>
None == <<>>

Some(x) == <<x>>

\* ------------------------------------------------------- the calculator
EmptyMap == [id \in {} |-> 0]

\* An insert that removes the key when the count is 0.
Insert_nonzero(map, id, count) ==
  IF count = 0 THEN [k \in (DOMAIN map) \ {id} |-> map[k]]
  ELSE [k \in (DOMAIN map) \cup {id} |-> IF k = id THEN count ELSE map[k]]

\* HashMap::insert
Insert(map, id, count) ==
  [k \in (DOMAIN map) \cup {id} |-> IF k = id THEN count ELSE map[k]]

\* A missing key counts as zero.
Count(map, id) == IF id \in DOMAIN map THEN map[id] ELSE 0

\* GridCalculator::default()
DefaultCalculator ==
  [gravity_multiplier |-> ScalarDefault("gravity_multiplier"),
   container_multiplier |-> ScalarDefault("container_multiplier"),
   planetary_influence |-> ScalarDefault("planetary_influence"),
   additional_mass |-> ScalarDefault("additional_mass"),
   ice_only_fill |-> ScalarDefault("ice_only_fill"),
   ore_only_fill |-> ScalarDefault("ore_only_fill"),
   any_fill_with_ice |-> ScalarDefault("any_fill_with_ice"),
   any_fill_with_ore |-> ScalarDefault("any_fill_with_ore"),
   any_fill_with_steel_plates |-> ScalarDefault("any_fill_with_steel_plates"),
   blocks |-> EmptyMap,
   directional_blocks |-> [d \in Direction |-> EmptyMap]]

\* GridCalculator::calculate(&data): the Derived Output Snapshot, a pure
\* function of the scalar parameters and of the counts of the catalog's
\* items; an absent key counts as zero and an id the catalog does not know
\* contributes nothing.
calculate(c) ==
  [scalars |-> [f \in ScalarFields |-> c[f]],
   blocks |-> [b \in Blocks |-> Count(c.blocks, b)],
   acceleration |->
     [d \in Direction |->
        [t \in Thrusters |->
           IF d \in DOMAIN c.directional_blocks
           THEN Count(c.directional_blocks[d], t) ELSE 0]]]

\* ------------------------------------------------------- the document
\* A document is a sequence of tokens: the nine scalars, the entries of the
\* undirected map, one header per direction followed by its entries, and a
\* closing token.
Token(k, m, id, v) == [k |-> k, m |-> m, id |-> id, v |-> v]

EndToken == Token("end", "", "", 0)

JunkToken == Token("junk", "", "", 0)

RECURSIVE MapTokens(_, _, _)
MapTokens(m, map, ids) ==
  IF Len(ids) = 0 THEN <<>>
  ELSE (IF Head(ids) \in DOMAIN map
        THEN <<Token("count", m, Head(ids), map[Head(ids)])>> ELSE <<>>)
       \o MapTokens(m, map, Tail(ids))

RECURSIVE DirTokens(_, _)
DirTokens(c, ds) ==
  IF Len(ds) = 0 THEN <<>>
  ELSE (IF Head(ds) \in DOMAIN c.directional_blocks
        THEN <<Token("dir", Head(ds), "", 0)>>
               \o MapTokens(Head(ds), c.directional_blocks[Head(ds)], IdOrder)
        ELSE <<>>)
       \o DirTokens(c, Tail(ds))

\* GridCalculator::to_json: the bytes written for a calculator.
to_json(c) ==
  [i \in 1..Len(ScalarOrder) |-> Token("scalar", ScalarOrder[i], "", c[ScalarOrder[i]])]
    \o MapTokens("blocks", c.blocks, IdOrder)
    \o DirTokens(c, DirectionOrder)
    \o <<EndToken>>

\* The map read back from the count tokens of map m (a later token of the
\* same key wins).
MapOfTokens(content, m) ==
  LET at == {i \in 1..Len(content) : content[i].k = "count" /\ content[i].m = m}
      last(id) == CHOOSE i \in at : content[i].id = id
                    /\ \A j \in at : content[j].id = id => j <= i
  IN  [id \in {content[i].id : i \in at} |-> content[last(id)].v]

WellFormed(content) ==
  /\ Len(content) > Len(ScalarOrder)
  /\ \A i \in 1..Len(ScalarOrder) :
        content[i].k = "scalar" /\ content[i].m = ScalarOrder[i]
  /\ content[Len(content)].k = "end"
  /\ \A i \in (Len(ScalarOrder) + 1)..(Len(content) - 1) :
        content[i].k \in {"count", "dir"}

\* GridCalculator::from_json: the calculator read from a reader's contents,
\* or a ReadError; anything after the closing token is an error.
from_json(content) ==
  IF ~WellFormed(content) THEN [ok |-> FALSE, calculator |-> DefaultCalculator]
  ELSE
    [ok |-> TRUE,
     calculator |->
       [gravity_multiplier |-> content[1].v,
        container_multiplier |-> content[2].v,
        planetary_influence |-> content[3].v,
        additional_mass |-> content[4].v,
        ice_only_fill |-> content[5].v,
        ore_only_fill |-> content[6].v,
        any_fill_with_ice |-> content[7].v,
        any_fill_with_ore |-> content[8].v,
        any_fill_with_steel_plates |-> content[9].v,
        blocks |-> MapOfTokens(content, "blocks"),
        directional_blocks |->
          [d \in {content[i].m : i \in {j \in 1..Len(content) : content[j].k = "dir"}}
             |-> MapOfTokens(content, d)]]]

\* ------------------------------------------------------- the file system
\* A path is <<directory, file name>>; Path::parent is the directory.
DocPath == <<"docs", "doc.json">>

NewPath == <<"out", "new.json">>

JunkPath == <<"docs", "junk.json">>

NoDirPath == <<"ro", "nodir.json">>

Paths == {DocPath, NewPath, JunkPath, NoDirPath}

parent(path) == Some(path[1])

\* Files that cannot be opened for writing, and files whose device accepts
\* no more bytes.
ReadOnly == {NoDirPath}

Full == {JunkPath}

\* A saved document with a three-decimal scalar, a zero count, an id the
\* catalog does not know and one thruster count.
DocCalculator ==
  [DefaultCalculator EXCEPT
     !.container_multiplier = 1234,
     !.blocks = Insert(Insert(Insert(EmptyMap, "A", 3), "B", 0), UnknownId, 7),
     !.directional_blocks["Up"] = Insert(EmptyMap, "T", 12)]

\* A document whose directional structure has no "Up" key.
NoDirCalculator ==
  [DefaultCalculator EXCEPT
     !.directional_blocks = [d \in Direction \ {"Up"} |-> EmptyMap]]

InitFs ==
  [p \in Paths |->
     CASE p = DocPath -> Some(to_json(DocCalculator))
       [] p = NewPath -> None
       [] p = JunkPath -> Some(<<JunkToken>>)
       [] p = NoDirPath -> Some(to_json(NoDirCalculator))]

\* Writing bytes at offset 0 of a file that was opened without truncation.
Overwrite(old, new) == new \o SubSeq(old, Len(new) + 1, Len(old))

\* OpenOptions::new().write(true).create(true).open(path), then the write.
OpenForWrite(old) == IF old = None THEN <<>> ELSE old[1]

\* ------------------------------------------------------- the user's input
ScalarTexts == {<<>>, <<"x">>, <<"2", ".", "5">>, <<"1", ".", "2", "3", "8">>}

BlockTexts == {<<>>, <<"3">>, <<"-", "1">>, <<"1", ".", "5">>}

Cancel == <<>>

\* ------------------------------------------------------------- the state
VARIABLES
  state,          \* State: current_dir_path, current_file_path, calculator
  entry_text,     \* the text of each of the nine scalar Entry widgets
  block_entries,  \* BlockEntries: per lookup table, the text of each Entry
  display,        \* the Display Sink: the snapshot last pushed to the labels
  fs,             \* the files, each absent or a sequence of tokens
  op,             \* the operation that ran last
  result,         \* what that operation returned
  recalcs,        \* the calculators recalculate() read during that operation
  borrows,        \* the RefCell borrows requested during that operation
  error_path,     \* the file_path of the error that operation returned
  values_order,   \* per lookup table, the order its values() iterates in
  option_input,   \* alternate UI: OptionInput, one DataBind per scalar
  calc,           \* alternate UI: the GridCalculator the page owns
  message,        \* alternate UI: the call of OptionInput that ran last
  nops,           \* number of operations so far
  fault           \* the process panicked

vars ==
  <<state, entry_text, block_entries, display, fs, op, result, recalcs,
    borrows, error_path, values_order, option_input, calc, message, nops,
    fault>>

option_vars == <<option_input, calc, message>>

window_vars ==
  <<state, entry_text, block_entries, display, fs, op, result, recalcs,
    borrows, error_path, values_order, fault>>

\* The ids with a field in a lookup table.
BoundIds(tb) == IF tb = "entries" THEN Blocks ELSE Thrusters

Tables == {"entries"} \cup DirectionalTables

\* The borrow flag of the two RefCells of MainWindow: 0 unborrowed, n > 0
\* shared n times, -1 exclusively borrowed.
Cells == {"state", "block_entries"}

Unborrowed == [cell \in Cells |-> 0]

\* The window while one operation runs.
Win ==
  [state |-> state, entry_text |-> entry_text,
   block_entries |-> block_entries, display |-> display,
   recalcs |-> <<>>, fault |-> fault, result |-> "none",
   borrow_flag |-> Unborrowed, borrows |-> <<>>, error_path |-> None,
   values_order |-> values_order]

Return(w, r) == [w EXCEPT !.result = r]

\* .context(Variant { file_path }): the error carries the path.
context(w, path) == [w EXCEPT !.error_path = Some(path)]

\* One request of a borrow: the cell, the kind, and the flags it found.
Request(w, cell, kind) ==
  [cell |-> cell, kind |-> kind, flags |-> w.borrow_flag]

\* RefCell::borrow: panics while the cell is exclusively borrowed.
borrow(w, cell) ==
  IF w.borrow_flag[cell] < 0
  THEN [w EXCEPT !.borrows = Append(@, Request(w, cell, "shared")),
                 !.fault = TRUE]
  ELSE [w EXCEPT !.borrows = Append(@, Request(w, cell, "shared")),
                 !.borrow_flag[cell] = @ + 1]

\* RefCell::borrow_mut: panics while the cell is borrowed at all.
borrow_mut(w, cell) ==
  IF w.borrow_flag[cell] # 0
  THEN [w EXCEPT !.borrows = Append(@, Request(w, cell, "mut")),
                 !.fault = TRUE]
  ELSE [w EXCEPT !.borrows = Append(@, Request(w, cell, "mut")),
                 !.borrow_flag[cell] = -1]

\* The end of the scope of a Ref and of a RefMut.
drop_ref(w, cell) == [w EXCEPT !.borrow_flag[cell] = @ - 1]

drop_ref_mut(w, cell) == [w EXCEPT !.borrow_flag[cell] = 0]

\* A recalculation that drops the keys whose count is 0 from the undirected
\* map while it reads the calculator.
recalculate_pruning(w) ==
  LET b == borrow(w, "state")
      kept == {id \in DOMAIN w.state.calculator.blocks :
                 w.state.calculator.blocks[id] # 0}
  IN  IF b.fault THEN b
      ELSE drop_ref([b EXCEPT !.display = calculate(w.state.calculator),
                              !.recalcs = Append(@, w.state.calculator),
                              !.state.calculator.blocks =
                                 [id \in kept |-> w.state.calculator.blocks[id]]],
                    "state")

\* MainWindow::recalculate
recalculate(w) ==
  LET b == borrow(w, "state")
  IN  IF b.fault THEN b
      ELSE drop_ref([b EXCEPT !.display = calculate(w.state.calculator),
                              !.recalcs = Append(@, w.state.calculator)],
                    "state")

\* A closure that recalculates before it writes the parsed value.
scalar_changed_stale(w, f) ==
  LET r == recalculate(w)
      b == borrow_mut(r, "state")
  IN  IF r.fault THEN r
      ELSE IF b.fault THEN b
      ELSE drop_ref_mut(
             [b EXCEPT !.state.calculator[f] =
                          parse_f64(w.entry_text[f], ScalarDefault(f))],
             "state")

\* The closure connected by set_and_recalc_on_change.
scalar_changed(w, f) ==
  LET b == borrow_mut(w, "state")
  IN  IF b.fault THEN b
      ELSE recalculate(
             drop_ref_mut(
               [b EXCEPT !.state.calculator[f] =
                            parse_f64(w.entry_text[f], ScalarDefault(f))],
               "state"))

\* The closure connected by insert_and_recalc_on_change; the map is
\* c.blocks for the undirected table and
\* c.directional_blocks.get_mut(&direction).unwrap() for a directional one.
block_changed(w, tb, id) ==
  LET count == parse_u64(w.block_entries[tb][id], 0)
      b == borrow_mut(w, "state")
  IN  IF b.fault THEN b
      ELSE IF tb = "entries"
      THEN recalculate(
             drop_ref_mut(
               [b EXCEPT !.state.calculator.blocks = Insert(@, id, count)],
               "state"))
      ELSE IF DirectionOfTable(tb) \notin DOMAIN w.state.calculator.directional_blocks
      THEN [b EXCEPT !.fault = TRUE]
      ELSE recalculate(
             drop_ref_mut(
               [b EXCEPT !.state.calculator.directional_blocks[DirectionOfTable(tb)] =
                            Insert(@, id, count)],
               "state"))

\* Entry::set_text on a scalar field: "changed" is emitted, and the closure
\* runs, when the text becomes different.
entry_set_text(w, f, t) ==
  IF w.fault \/ w.entry_text[f] = t THEN w
  ELSE scalar_changed([w EXCEPT !.entry_text[f] = t], f)

\* Entry::set_text on a field of a lookup table.
block_set_text(w, tb, id, t) ==
  IF w.fault \/ w.block_entries[tb][id] = t THEN w
  ELSE block_changed([w EXCEPT !.block_entries[tb][id] = t], tb, id)

\* process_open, the nine scalar set() calls.
RECURSIVE set_scalars(_, _, _)
set_scalars(w, calculator, fields) ==
  IF Len(fields) = 0 \/ w.fault THEN w
  ELSE LET next == entry_set_text(w, Head(fields),
                                  format_f64(calculator[Head(fields)]))
       IN  IF next.fault THEN next
           ELSE set_scalars(next, calculator, Tail(fields))

RECURSIVE blank_table(_, _, _)
blank_table(w, tb, ids) ==
  IF Len(ids) = 0 \/ w.fault THEN w
  ELSE LET next == IF Head(ids) \in DOMAIN w.block_entries[tb]
                   THEN block_set_text(w, tb, Head(ids), format_str(<<>>))
                   ELSE w
       IN  IF next.fault THEN next ELSE blank_table(next, tb, Tail(ids))

\* A refresh that does not blank the entries first.
blank_entries_skip(w, tbs) == w

\* process_open, entry.set("") for every entry of iter_entries().
RECURSIVE blank_entries(_, _)
blank_entries(w, tbs) ==
  IF Len(tbs) = 0 \/ w.fault THEN w
  ELSE LET next == blank_table(w, Head(tbs), w.values_order[Head(tbs)])
       IN  IF next.fault THEN next ELSE blank_entries(next, Tail(tbs))

\* A set_entries_from that unwraps the lookup of every id of the map.
RECURSIVE set_entries_from_strict(_, _, _, _)
set_entries_from_strict(w, tb, map, ids) ==
  IF Len(ids) = 0 \/ w.fault THEN w
  ELSE LET next == IF Head(ids) \notin DOMAIN map THEN w
                   ELSE IF Head(ids) \notin DOMAIN w.block_entries[tb]
                   THEN [w EXCEPT !.fault = TRUE]
                   ELSE block_set_text(w, tb, Head(ids),
                                       format_u64(map[Head(ids)]))
       IN  IF next.fault THEN next
           ELSE set_entries_from_strict(next, tb, map, Tail(ids))

\* process_open::set_entries_from
RECURSIVE set_entries_from(_, _, _, _)
set_entries_from(w, tb, map, ids) ==
  IF Len(ids) = 0 \/ w.fault THEN w
  ELSE LET next == IF Head(ids) \in DOMAIN map
                      /\ Head(ids) \in DOMAIN w.block_entries[tb]
                   THEN block_set_text(w, tb, Head(ids),
                                       format_u64(map[Head(ids)]))
                   ELSE w
       IN  IF next.fault THEN next
           ELSE set_entries_from(next, tb, map, Tail(ids))

\* Six calls of which the one for down_entries reads the Up map.
RECURSIVE set_directional_entries_pasted(_, _, _)
set_directional_entries_pasted(w, calculator, ds) ==
  IF Len(ds) = 0 \/ w.fault THEN w
  ELSE IF Head(ds) \notin DOMAIN calculator.directional_blocks
  THEN [w EXCEPT !.fault = TRUE]
  ELSE LET from == IF Head(ds) = "Down" /\ "Up" \in DOMAIN calculator.directional_blocks
                   THEN "Up" ELSE Head(ds)
           next == set_entries_from(w, EntriesOf(Head(ds)),
                     calculator.directional_blocks[from], ThrusterKeyOrder)
       IN  IF next.fault THEN next
           ELSE set_directional_entries_pasted(next, calculator, Tail(ds))

\* process_open, the six directional set_entries_from calls, each on
\* calculator.directional_blocks.get(&direction).unwrap().
RECURSIVE set_directional_entries(_, _, _)
set_directional_entries(w, calculator, ds) ==
  IF Len(ds) = 0 \/ w.fault THEN w
  ELSE IF Head(ds) \notin DOMAIN calculator.directional_blocks
  THEN [w EXCEPT !.fault = TRUE]
  ELSE LET next == set_entries_from(w, EntriesOf(Head(ds)),
                     calculator.directional_blocks[Head(ds)],
                     ThrusterKeyOrder)
       IN  IF next.fault THEN next
           ELSE set_directional_entries(next, calculator, Tail(ds))

\* process_open, the block that holds block_entries.borrow(): every entry
\* blanked, then the seven set_entries_from calls.
set_block_entries(w, calculator, order) ==
  LET b == borrow(w, "block_entries")
      blanked == blank_entries(b, TableOrder)
      undirected == set_entries_from(blanked, "entries", calculator.blocks,
                                     order)
      directed == set_directional_entries(undirected, calculator,
                                          DirectionOrder)
  IN  IF b.fault THEN b
      ELSE IF blanked.fault THEN blanked
      ELSE IF undirected.fault THEN undirected
      ELSE IF directed.fault THEN directed
      ELSE drop_ref(directed, "block_entries")

\* A refresh that runs with the state exclusively borrowed from the start.
refresh_fields_borrowed(w, calculator, order) ==
  LET b == borrow_mut(w, "state")
      scalars == set_scalars(b, calculator, ScalarOrder)
      entries == set_block_entries(scalars, calculator, order)
  IN  IF b.fault THEN b
      ELSE IF scalars.fault THEN scalars
      ELSE IF entries.fault THEN entries
      ELSE drop_ref_mut(entries, "state")

\* process_open, the refresh of every bound field from the new calculator.
refresh_fields(w, calculator, order) ==
  LET scalars == set_scalars(w, calculator, ScalarOrder)
  IN  IF scalars.fault THEN scalars
      ELSE set_block_entries(scalars, calculator, order)

\* A final step that records the path and keeps the old calculator.
install_keep_calculator(w, path, calculator) ==
  LET b == borrow_mut(w, "state")
  IN  IF b.fault THEN b
      ELSE drop_ref_mut(
             [b EXCEPT !.state.current_dir_path = parent(path),
                       !.state.current_file_path = Some(path)],
             "state")

\* process_open, the final exclusive borrow of the state.
install(w, path, calculator) ==
  LET b == borrow_mut(w, "state")
  IN  IF b.fault THEN b
      ELSE drop_ref_mut(
             [b EXCEPT !.state =
                [current_dir_path |-> parent(path),
                 current_file_path |-> Some(path),
                 calculator |-> calculator]],
             "state")

\* An error return that resets the calculator.
open_error_reset(w, e) ==
  Return([w EXCEPT !.state.calculator = DefaultCalculator], e)

\* The ? of process_open: the error is returned.
open_error(w, e) == Return(w, e)

\* A load that reports every failure as a deserialize error.
process_open_unclassified(w, files, path, order) ==
  IF files[path] = None
  THEN open_error(context(w, path), "OpenDeserialize")
  ELSE IF ~from_json(files[path][1]).ok
  THEN open_error(context(w, path), "OpenDeserialize")
  ELSE LET calculator == from_json(files[path][1]).calculator
           refreshed == refresh_fields(w, calculator, order)
           installed == install(refreshed, path, calculator)
       IN  IF refreshed.fault THEN Return(refreshed, "panic")
           ELSE IF installed.fault THEN Return(installed, "panic")
           ELSE Return(installed, "Ok")

\* MainWindow::process_open
process_open(w, files, path, order) ==
  IF files[path] = None THEN open_error(context(w, path), "OpenFile")
  ELSE IF ~from_json(files[path][1]).ok
  THEN open_error(context(w, path), "OpenDeserialize")
  ELSE LET calculator == from_json(files[path][1]).calculator
           refreshed == refresh_fields(w, calculator, order)
           installed == install(refreshed, path, calculator)
       IN  IF refreshed.fault THEN Return(refreshed, "panic")
           ELSE IF installed.fault THEN Return(installed, "panic")
           ELSE Return(installed, "Ok")

\* A bookkeeping step that also leaves a default calculator behind, as a
\* save that moved the calculator into the serializer would.
remember_take(w, path) ==
  [w EXCEPT !.state.current_file_path = Some(path),
            !.state.current_dir_path = parent(path),
            !.state.calculator = DefaultCalculator]

\* A bookkeeping step that records the file and not its directory.
remember_file_only(w, path) ==
  [w EXCEPT !.state.current_file_path = Some(path)]

\* process_save, the bookkeeping after a successful write.
remember(w, path) ==
  [w EXCEPT !.state.current_file_path = Some(path),
            !.state.current_dir_path = parent(path)]

\* process_save, the file after the write.
written(old, calculator) == Overwrite(old, to_json(calculator))

\* A save that records the path before it opens and writes the file.
process_save_eager(w, files, path) ==
  LET b == borrow_mut(w, "state")
      opened == [files EXCEPT ![path] = Some(OpenForWrite(files[path]))]
  IN  IF b.fault THEN [w |-> Return(b, "panic"), fs |-> files]
      ELSE IF path \in ReadOnly
      THEN [w |-> Return(drop_ref_mut(remember(b, path), "state"), "SaveFile"),
            fs |-> files]
      ELSE IF path \in Full
      THEN [w |-> Return(drop_ref_mut(remember(b, path), "state"),
                         "SaveSerialize"),
            fs |-> opened]
      ELSE [w |-> Return(drop_ref_mut(remember(b, path), "state"), "Ok"),
            fs |-> [files EXCEPT ![path] =
                      Some(written(OpenForWrite(files[path]),
                                   w.state.calculator))]]

\* MainWindow::process_save; the result is the window and the files.
process_save(w, files, path) ==
  LET b == borrow_mut(w, "state")
      opened == [files EXCEPT ![path] = Some(OpenForWrite(files[path]))]
  IN  IF path \in ReadOnly THEN [w |-> Return(context(w, path), "SaveFile"), fs |-> files]
      ELSE IF b.fault THEN [w |-> Return(b, "panic"), fs |-> opened]
      ELSE IF path \in Full
      THEN [w |-> Return(drop_ref_mut(context(b, path), "state"), "SaveSerialize"),
            fs |-> opened]
      ELSE [w |-> Return(drop_ref_mut(remember(b, path), "state"), "Ok"),
            fs |-> [files EXCEPT ![path] =
                      Some(written(OpenForWrite(files[path]),
                                   w.state.calculator))]]

\* open, save_or_save_as and save_as: the shared borrow that reads the
\* remembered paths for the dialog, released before the dialog runs.
current_paths(w) ==
  LET b == borrow(w, "state")
  IN  IF b.fault THEN b ELSE drop_ref(b, "state")

Commit(w) ==
  /\ state' = w.state
  /\ entry_text' = w.entry_text
  /\ block_entries' = w.block_entries
  /\ display' = w.display
  /\ recalcs' = w.recalcs
  /\ borrows' = w.borrows
  /\ error_path' = w.error_path
  /\ UNCHANGED values_order
  /\ fault' = w.fault
  /\ result' = w.result

Op(name, target, text, dialog) ==
  [name |-> name, target |-> target, text |-> text, dialog |-> dialog]

\* create_block_input_grid: one statement-long exclusive borrow of
\* block_entries for each entry inserted.
RECURSIVE create_block_input_grid(_, _)
create_block_input_grid(w, ids) ==
  IF Len(ids) = 0 \/ w.fault THEN w
  ELSE LET b == borrow_mut(w, "block_entries")
       IN  IF b.fault THEN b
           ELSE create_block_input_grid(drop_ref_mut(b, "block_entries"),
                                        Tail(ids))

\* create_acceleration_block_input_grid: one exclusive borrow of
\* block_entries held while the six entries of every row are inserted.
create_acceleration_block_input_grid(w) ==
  LET b == borrow_mut(w, "block_entries")
  IN  IF b.fault THEN b ELSE drop_ref_mut(b, "block_entries")

\* MainWindow::initialize, the grids of the small and of the large blocks.
initialize(w) ==
  create_acceleration_block_input_grid(
    create_acceleration_block_input_grid(
      create_block_input_grid(
        create_block_input_grid(w, <<"A">>), <<"B">>)))

\* What env::current_dir().ok() can be.
CurrentDirs == {Some("cwd"), None}

\* The labels of the Display Sink before anything was pushed to them.
Blank == <<>>

\* MainWindow::new up to the construction of the Rc: the two cells, every
\* Entry empty, the labels as built.
built(current_dir) ==
  [state |-> [current_dir_path |-> current_dir, current_file_path |-> None,
              calculator |-> DefaultCalculator],
   entry_text |-> [f \in ScalarFields |-> <<>>],
   block_entries |-> [tb \in Tables |-> [id \in BoundIds(tb) |-> <<>>]],
   display |-> Blank,
   recalcs |-> <<>>, fault |-> FALSE, result |-> "none",
   borrow_flag |-> Unborrowed, borrows |-> <<>>, error_path |-> None]

\* A constructor that starts with the document of the catalog remembered.
new_remembering(current_dir) ==
  recalculate(
    initialize(
      [built(current_dir) EXCEPT !.state.current_file_path = Some(DocPath),
                                 !.state.current_dir_path = parent(DocPath)]))

\* A constructor that ends without the recalculation.
new_unrecalculated(current_dir) == initialize(built(current_dir))

\* MainWindow::new: the cells are created, initialize() and recalculate().
new(current_dir) == recalculate(initialize(built(current_dir)))

\* ------------------------------------------------------ the alternate UI
\* Thousandths to tenths, ties to even.
RoundTenths(a) ==
  LET q == a \div 100
      r == a % 100
  IN  IF r > 50 \/ (r = 50 /\ q % 2 = 1) THEN q + 1 ELSE q

\* format!("{:.1}", value) for an f64.
format_one_decimal(v) ==
  LET t == RoundTenths(Abs(v))
  IN  (IF v < 0 THEN <<"-">> ELSE <<>>)
        \o NatText(t \div 10) \o <<".", Digits[(t % 10) + 1]>>

\* format!("{}", value) for an f64: the digits after the point end at the
\* last one that is not 0, and a whole number gets no point.
format_display(v) ==
  LET a == Abs(v)
      d1 == (a % 1000) \div 100
      d2 == (a % 100) \div 10
      d3 == a % 10
  IN  (IF v < 0 THEN <<"-">> ELSE <<>>)
        \o NatText(a \div 1000)
        \o (IF a % 1000 = 0 THEN <<>>
            ELSE IF d3 # 0
            THEN <<".", Digits[d1 + 1], Digits[d2 + 1], Digits[d3 + 1]>>
            ELSE IF d2 # 0 THEN <<".", Digits[d1 + 1], Digits[d2 + 1]>>
            ELSE <<".", Digits[d1 + 1]>>)

\* The $format column of create_option_input!.
format_of(field, v) ==
  IF field = "additional_mass" THEN format_display(v)
  ELSE format_one_decimal(v)

\* DataBind::new: the default, the placeholder and the text of the input.
DataBind_new(default, placeholder, text) ==
  [default |-> default, placeholder |-> placeholder, text |-> text]

\* DataBind::update with the text the user typed: the text is kept and the
\* value becomes what it parses to, the default when it does not parse.
DataBind_update(bind, m, value) ==
  [bind |-> [bind EXCEPT !.text = m],
   value |-> parse_f64(m, bind.default)]

\* DataBind::reload
DataBind_reload(bind, text) == [bind EXCEPT !.text = text]

\* OptionInput::new
OptionInput_new(default_calculator, loaded_calculator) ==
  [field \in ScalarFields |->
     DataBind_new(default_calculator[field],
                  format_of(field, default_calculator[field]),
                  format_display(loaded_calculator[field]))]

\* An update whose IceOnlyFill arm hands over calc.ore_only_fill.
OptionInput_update_crossed(self, m, c) ==
  LET to == IF m.field = "ice_only_fill" THEN "ore_only_fill" ELSE m.field
      u == DataBind_update(self[m.field], m.text, c[to])
  IN  [self |-> [self EXCEPT ![m.field] = u.bind],
       calc |-> [c EXCEPT ![to] = u.value]]

\* OptionInput::update: the arm of the message's variant hands its own
\* binding and its own attribute of calc to DataBind::update.
OptionInput_update(self, m, c) ==
  LET u == DataBind_update(self[m.field], m.text, c[m.field])
  IN  [self |-> [self EXCEPT ![m.field] = u.bind],
       calc |-> [c EXCEPT ![m.field] = u.value]]

\* A reload whose line for any_fill_with_ore reads calc.any_fill_with_ice.
OptionInput_reload_crossed(self, c) ==
  [field \in ScalarFields |->
     DataBind_reload(self[field],
       format_display(c[IF field = "any_fill_with_ore"
                        THEN "any_fill_with_ice" ELSE field]))]

\* OptionInput::reload
OptionInput_reload(self, c) ==
  [field \in ScalarFields |->
     DataBind_reload(self[field], format_display(c[field]))]

\* A calculator whose nine scalars differ from each other and from the
\* defaults.
OtherCalculator ==
  [DefaultCalculator EXCEPT
     !.gravity_multiplier = 2500,
     !.container_multiplier = 1234,
     !.planetary_influence = 1050,
     !.additional_mass = 1238,
     !.ice_only_fill = 50000,
     !.ore_only_fill = 75000,
     !.any_fill_with_ice = 10000,
     !.any_fill_with_ore = 20000,
     !.any_fill_with_steel_plates = 30000]

LoadedCalculators == {DefaultCalculator, DocCalculator, OtherCalculator}

OptionTexts == {<<"x">>, <<"2", ".", "5">>}

Message(name, field, text) ==
  [name |-> name, field |-> field, text |-> text]

\* The window MainWindow::new returns: the default calculator, no remembered
\* file, the working directory if there is one, every Entry empty, and the
\* one recalculation new() ends with.
InitWindow ==
  /\ \E current_dir \in CurrentDirs :
       /\ state = new(current_dir).state
       /\ entry_text = new(current_dir).entry_text
       /\ block_entries = new(current_dir).block_entries
       /\ display = new(current_dir).display
       /\ recalcs = new(current_dir).recalcs
       /\ borrows = new(current_dir).borrows
       /\ error_path = new(current_dir).error_path
       /\ fault = new(current_dir).fault
  /\ values_order \in
       {[tb \in Tables |-> IF tb = "entries" THEN blocks ELSE thrusters] :
          blocks \in Orders(Blocks), thrusters \in Orders(Thrusters)}
  /\ fs = InitFs
  /\ op = Op("new", <<>>, <<>>, FALSE)
  /\ result = "done"
  /\ nops = 0

\* The alternate UI's page with the default calculator loaded.
Init ==
  /\ InitWindow
  /\ option_input = OptionInput_new(DefaultCalculator, DefaultCalculator)
  /\ calc = DefaultCalculator
  /\ message = Message("new", "", <<>>)

Enabled == nops < MaxOps /\ ~fault

\* The user changes the text of a scalar field.
EditScalar(f, t) ==
  /\ Enabled
  /\ t # entry_text[f]
  /\ Commit(Return(entry_set_text(Win, f, t), "done"))
  /\ op' = Op("edit", <<"scalar", f>>, t, FALSE)
  /\ nops' = nops + 1
  /\ UNCHANGED option_vars
  /\ UNCHANGED fs

\* The user changes the text of a field of a lookup table.
EditBlock(tb, id, t) ==
  /\ Enabled
  /\ t # block_entries[tb][id]
  /\ Commit(Return(block_set_text(Win, tb, id, t), "done"))
  /\ op' = Op("edit", <<tb, id>>, t, FALSE)
  /\ nops' = nops + 1
  /\ UNCHANGED option_vars
  /\ UNCHANGED fs

\* MainWindow::open; choice is what the dialog returns, order the order in
\* which the undirected map of the deserialized calculator iterates.
Open(choice) ==
  /\ Enabled
  /\ IF choice = Cancel THEN Commit(Return(current_paths(Win), "cancel"))
     ELSE \E order \in KeyOrders :
            Commit(process_open(current_paths(Win), fs, choice, order))
  /\ op' = Op("open", choice, <<>>, TRUE)
  /\ nops' = nops + 1
  /\ UNCHANGED option_vars
  /\ UNCHANGED fs

\* A save that writes to out/new.json when the dialog is cancelled.
SaveTo_default(choice) ==
  LET file_path == IF choice = Cancel THEN NewPath ELSE choice
  IN  /\ Commit(process_save(current_paths(Win), fs, file_path).w)
      /\ fs' = process_save(current_paths(Win), fs, file_path).fs

\* The effect of a save to the path a dialog returned.
SaveTo(choice) ==
  IF choice = Cancel
  THEN Commit(Return(current_paths(Win), "cancel")) /\ UNCHANGED fs
  ELSE /\ Commit(process_save(current_paths(Win), fs, choice).w)
       /\ fs' = process_save(current_paths(Win), fs, choice).fs

\* A save_or_save_as that runs the dialog whether or not a file is remembered.
SaveOrSaveAs_prompt(choice) ==
  /\ Enabled
  /\ SaveTo(choice)
  /\ op' = Op("save_or_save_as", choice, <<>>, TRUE)
  /\ nops' = nops + 1
  /\ UNCHANGED option_vars

\* MainWindow::save_or_save_as
SaveOrSaveAs(choice) ==
  /\ Enabled
  /\ IF state.current_file_path # None
     THEN /\ choice = Cancel
          /\ SaveTo(state.current_file_path[1])
          /\ op' = Op("save_or_save_as", state.current_file_path[1], <<>>, FALSE)
     ELSE /\ SaveTo(choice)
          /\ op' = Op("save_or_save_as", choice, <<>>, TRUE)
  /\ nops' = nops + 1
  /\ UNCHANGED option_vars

\* MainWindow::save_as
SaveAs(choice) ==
  /\ Enabled
  /\ SaveTo(choice)
  /\ op' = Op("save_as", choice, <<>>, TRUE)
  /\ nops' = nops + 1
  /\ UNCHANGED option_vars

Next ==
  \/ \E f \in ScalarFields, t \in ScalarTexts : EditScalar(f, t)
  \/ \E tb \in Tables : \E id \in BoundIds(tb) : \E t \in BlockTexts :
       EditBlock(tb, id, t)
  \/ \E choice \in Paths \cup {Cancel} : Open(choice)
  \/ \E choice \in Paths \cup {Cancel} : SaveOrSaveAs(choice)
  \/ \E choice \in Paths \cup {Cancel} : SaveAs(choice)

Spec == Init /\ [][Next]_vars

\* ----------------------------------------- the alternate UI's state machine
\* The page is built around a loaded calculator.
InitOption ==
  /\ InitWindow
  /\ \E loaded_calculator \in LoadedCalculators :
       /\ option_input = OptionInput_new(DefaultCalculator, loaded_calculator)
       /\ calc = loaded_calculator
  /\ message = Message("new", "", <<>>)

\* The user types into the input of one scalar: OptionInput::update.
Update(field, text) ==
  /\ nops < MaxOps
  /\ option_input' =
       OptionInput_update(option_input, Message("update", field, text), calc).self
  /\ calc' =
       OptionInput_update(option_input, Message("update", field, text), calc).calc
  /\ message' = Message("update", field, text)
  /\ nops' = nops + 1
  /\ UNCHANGED window_vars

\* The page hands a calculator to OptionInput::reload and keeps it.
Reload(c) ==
  /\ nops < MaxOps
  /\ option_input' = OptionInput_reload(option_input, c)
  /\ calc' = c
  /\ message' = Message("reload", "", <<>>)
  /\ nops' = nops + 1
  /\ UNCHANGED window_vars

NextOption ==
  \/ \E field \in ScalarFields, text \in OptionTexts : Update(field, text)
  \/ \E c \in LoadedCalculators : Reload(c)

SpecOption == InitOption /\ [][NextOption]_vars

\* ================================================================ claims
\* What the texts the user types must parse to, stated case by case.
ExpectedScalar(t, default) ==
  CASE t = <<"2", ".", "5">> -> 2500
    [] t = <<"1", ".", "2", "3", "8">> -> 1238
    [] OTHER -> default

ExpectedCount(t) == IF t = <<"3">> THEN 3 ELSE 0

UnparseableScalarTexts == {<<>>, <<"x">>}

UnparseableCountTexts == {<<>>, <<"-", "1">>, <<"1", ".", "5">>}

\* The decimal text of the counts that occur in documents.
CountText(n) ==
  CASE n = 0 -> <<"0">>
    [] n = 3 -> <<"3">>
    [] n = 7 -> <<"7">>
    [] n = 12 -> <<"1", "2">>

\* The map of the calculator a lookup table is bound to.
BoundMap(c, tb) ==
  CASE tb = "entries" -> c.blocks
    [] tb = "up_entries" -> c.directional_blocks["Up"]
    [] tb = "down_entries" -> c.directional_blocks["Down"]
    [] tb = "front_entries" -> c.directional_blocks["Front"]
    [] tb = "back_entries" -> c.directional_blocks["Back"]
    [] tb = "left_entries" -> c.directional_blocks["Left"]
    [] tb = "right_entries" -> c.directional_blocks["Right"]

IsEdit == op.name = "edit"

IsScalarEdit == IsEdit /\ op.target[1] = "scalar"

IsBlockEdit == IsEdit /\ op.target[1] # "scalar"

IsLoad == op.name = "open" /\ op.target # Cancel

LoadOk == IsLoad /\ result = "Ok"

LoadFailed == IsLoad /\ result \in {"OpenFile", "OpenDeserialize"}

IsSave == op.name \in {"save_or_save_as", "save_as"} /\ op.target # Cancel

SaveOk == IsSave /\ result = "Ok"

\* C1: after every edit of a scalar or collection field the edited attribute
\* holds the parsed text, the recalculation read the calculator as it stands
\* after the write, and the Display Sink holds calculate of that calculator.
C1_RecomputeAfterEdit ==
  IsEdit =>
    /\ display = calculate(state.calculator)
    /\ recalcs = <<state.calculator>>
    /\ IsScalarEdit =>
         state.calculator[op.target[2]] =
           ExpectedScalar(op.text, ScalarDefault(op.target[2]))
    /\ IsBlockEdit =>
         /\ op.target[2] \in DOMAIN BoundMap(state.calculator, op.target[1])
         /\ BoundMap(state.calculator, op.target[1])[op.target[2]] =
              ExpectedCount(op.text)

\* An edit of a scalar to a parseable text, after an earlier operation, that
\* changed the snapshot.
C1_Witness ==
  /\ IsScalarEdit
  /\ nops = 2
  /\ op.text = <<"1", ".", "2", "3", "8">>
  /\ display.scalars[op.target[2]] = 1238
  /\ display # calculate(DefaultCalculator)

\* C2: after a successful load the Display Sink holds calculate applied to
\* the calculator the load installed.
C2_DisplayAfterLoad ==
  LoadOk => display = calculate(state.calculator)

\* C3: a load that fails, on opening the path or on deserializing its
\* contents, returns the matching error and leaves the Model State and the
\* text of every bound field as they were.
C3_LoadAtomicity ==
  [][ /\ (IsLoad' /\ fs[op'.target] = None) => result' = "OpenFile"
      /\ (IsLoad' /\ fs[op'.target] # None /\ op'.target = JunkPath)
           => result' = "OpenDeserialize"
      /\ LoadFailed' =>
           /\ state' = state
           /\ entry_text' = entry_text
           /\ block_entries' = block_entries
           /\ fault' = FALSE
    ]_vars

\* A load failed on deserialization in a state an edit had changed.
C3_Witness ==
  /\ IsLoad
  /\ result = "OpenDeserialize"
  /\ state.calculator # DefaultCalculator
  /\ \E f \in ScalarFields : entry_text[f] # <<>>

\* C4: after a successful load the calculator is exactly the instance read
\* from the file: nothing of the pre-load calculator survives and the writes
\* of the change handlers during the refresh are not in it.
C4_LoadReplaces ==
  LoadOk =>
    /\ state.calculator = from_json(fs[op.target][1]).calculator
    /\ (fs[op.target] = InitFs[DocPath]) => state.calculator = DocCalculator

\* A successful load over a calculator the user had edited, during which a
\* change handler ran on a value that differs from the loaded one.
C4_Witness ==
  /\ LoadOk
  /\ nops = 2
  /\ \E i \in 1..Len(recalcs) :
        recalcs[i].any_fill_with_steel_plates
          # state.calculator.any_fill_with_steel_plates
  /\ \E i \in 1..Len(recalcs) :
        recalcs[i].container_multiplier # state.calculator.container_multiplier

\* C5: recalculation runs exactly once per edit and exactly once per
\* successful load, on the loaded calculator.
C5_OneRecalculation ==
  /\ IsEdit => Len(recalcs) = 1
  /\ LoadOk => recalcs = <<state.calculator>>

\* C6: every recalculation of an operation reads either the Model State as
\* it stood before the operation or the Model State the operation leaves:
\* never a mixture of pre-load values and values of the loaded document.
C6_ConsistentSnapshot ==
  [][ fault' = FALSE =>
        \A i \in 1..Len(recalcs') :
          recalcs'[i] \in {state.calculator, state'.calculator} ]_vars

\* C7: an edit whose text does not parse as the bound type stores the
\* field's default (0 for a count, also for negative and fractional text),
\* whatever the attribute held before; the field keeps the typed text and
\* one recalculation runs on the result.
C7_ParseDefault ==
  [][ /\ (IsScalarEdit' /\ op'.text \in UnparseableScalarTexts) =>
           /\ state'.calculator[op'.target[2]] = ScalarDefault(op'.target[2])
           /\ entry_text'[op'.target[2]] = op'.text
           /\ recalcs' = <<state'.calculator>>
           /\ display' = calculate(state'.calculator)
      /\ (IsBlockEdit' /\ op'.text \in UnparseableCountTexts) =>
           /\ op'.target[2] \in DOMAIN BoundMap(state'.calculator, op'.target[1])
           /\ BoundMap(state'.calculator, op'.target[1])[op'.target[2]] = 0
           /\ block_entries'[op'.target[1]][op'.target[2]] = op'.text
           /\ recalcs' = <<state'.calculator>>
           /\ display' = calculate(state'.calculator)
    ]_vars

\* A fractional text typed into a thruster field stored the count 0.
C7_Witness ==
  /\ IsBlockEdit
  /\ op.target[1] = "left_entries"
  /\ op.text = <<"1", ".", "5">>
  /\ state.calculator.directional_blocks["Left"]["T"] = 0
  /\ block_entries["left_entries"]["T"] = <<"1", ".", "5">>

\* C8: after a successful load every field of every lookup table shows the
\* count of its item in the loaded map of its table, "0" for a present zero,
\* and the empty text when the item is not a key of that map; an edit that
\* leaves a collection field empty writes the count 0.
C8_LoadCompleteness ==
  /\ LoadOk =>
       \A tb \in Tables : \A id \in BoundIds(tb) :
         block_entries[tb][id] =
           IF id \in DOMAIN BoundMap(state.calculator, tb)
           THEN CountText(BoundMap(state.calculator, tb)[id])
           ELSE <<>>
  /\ (IsBlockEdit /\ block_entries[op.target[1]][op.target[2]] = <<>>) =>
       /\ op.target[2] \in DOMAIN BoundMap(state.calculator, op.target[1])
       /\ BoundMap(state.calculator, op.target[1])[op.target[2]] = 0

\* A load of {A: 3, B: 0} and Up {T: 12} over a window whose Down field of T
\* showed a count: A shows "3", B shows "0", Up shows "12", Down is empty.
C8_Witness ==
  /\ LoadOk
  /\ block_entries["entries"]["A"] = <<"3">>
  /\ block_entries["entries"]["B"] = <<"0">>
  /\ block_entries["up_entries"]["T"] = <<"1", "2">>
  /\ block_entries["down_entries"]["T"] = <<>>
  /\ \E i \in 1..Len(recalcs) :
        Count(recalcs[i].directional_blocks["Down"], "T") = 3

\* C9: right after a successful save to a path, a load of that path succeeds
\* and installs a calculator with the same calculate output.
C9_SaveRoundTrip ==
  SaveOk =>
    \A order \in KeyOrders :
      /\ process_open(Win, fs, op.target, order).result = "Ok"
      /\ calculate(process_open(Win, fs, op.target, order).state.calculator) =
           calculate(state.calculator)

\* C10: after a successful save the file holds exactly the serialization of
\* the calculator.
C10_SaveTruncates ==
  SaveOk => fs[op.target] = Some(to_json(state.calculator))

\* The directory of each path.
DirectoryOf(path) ==
  CASE path = DocPath -> "docs"
    [] path = NewPath -> "out"
    [] path = JunkPath -> "docs"
    [] path = NoDirPath -> "ro"

SaveFailed == IsSave /\ result \in {"SaveFile", "SaveSerialize"}

\* C11: a save, successful or not, leaves the calculator's scalars and maps
\* and the text of every bound field unchanged and runs no recalculation;
\* the Display Sink stays as it was.
C11_SaveFrame ==
  [][ IsSave' =>
        /\ state'.calculator = state.calculator
        /\ entry_text' = entry_text
        /\ block_entries' = block_entries
        /\ recalcs' = <<>>
        /\ display' = display
    ]_vars

\* A successful save of a calculator the user had edited changed the
\* remembered file.
C11_Witness ==
  /\ SaveOk
  /\ state.calculator # DefaultCalculator
  /\ state.current_file_path = Some(NewPath)
  /\ \E tb \in Tables : \E id \in BoundIds(tb) : block_entries[tb][id] # <<>>

\* C12: a save that fails, on opening the file or on serialization, returns
\* the matching error and leaves the remembered file and directory as they
\* were.
C12_SaveFailureKeepsPaths ==
  [][ /\ (IsSave' /\ op'.target \in ReadOnly) => result' = "SaveFile"
      /\ (IsSave' /\ op'.target \in Full) => result' = "SaveSerialize"
      /\ SaveFailed' =>
           /\ state'.current_file_path = state.current_file_path
           /\ state'.current_dir_path = state.current_dir_path
    ]_vars

\* A save to another path failed while a file was remembered.
C12_Witness ==
  /\ SaveFailed
  /\ state.current_file_path # None
  /\ state.current_file_path # Some(op.target)

\* C13: a successful load or save of a path records the path as remembered
\* file and its directory as remembered directory; every other step (edit,
\* failed or cancelled operation) leaves both unchanged.
C13_RememberedPaths ==
  [][ /\ (LoadOk' \/ SaveOk') =>
           /\ state'.current_file_path = <<op'.target>>
           /\ state'.current_dir_path = <<DirectoryOf(op'.target)>>
      /\ ~(LoadOk' \/ SaveOk') =>
           /\ state'.current_file_path = state.current_file_path
           /\ state'.current_dir_path = state.current_dir_path
    ]_vars

\* An edit after a successful load kept the remembered file and directory.
C13_Witness ==
  /\ IsEdit
  /\ state.current_file_path = <<DocPath>>
  /\ state.current_dir_path = <<"docs">>

\* C14: save_or_save_as writes to the remembered file without a dialog when
\* there is one and runs the dialog exactly when there is none; save_as
\* always runs the dialog.  Only the chosen file is written.
C14_SavePrompts ==
  [][ /\ (op'.name = "save_or_save_as" /\ state.current_file_path # None) =>
           /\ ~op'.dialog
           /\ op'.target = state.current_file_path[1]
           /\ result' # "cancel"
           /\ \A p \in Paths \ {state.current_file_path[1]} : fs'[p] = fs[p]
      /\ (op'.name = "save_or_save_as" /\ state.current_file_path = None) =>
           op'.dialog
      /\ op'.name = "save_as" => op'.dialog
      /\ (op'.name \in {"save_or_save_as", "save_as"} /\ op'.dialog) =>
           \A p \in Paths \ {op'.target} : fs'[p] = fs[p]
    ]_vars

\* A save_or_save_as went to the remembered file without a dialog.
C14_Witness ==
  /\ op.name = "save_or_save_as"
  /\ ~op.dialog
  /\ result = "Ok"
  /\ state.current_file_path = <<op.target>>

\* The direction each directional lookup table belongs to.
TableDirection(tb) ==
  CASE tb = "up_entries" -> "Up"
    [] tb = "down_entries" -> "Down"
    [] tb = "front_entries" -> "Front"
    [] tb = "back_entries" -> "Back"
    [] tb = "left_entries" -> "Left"
    [] tb = "right_entries" -> "Right"

\* C15: an edit of the field of direction D for item X leaves the maps of
\* the five other directions as they were and changes, in D's map, the
\* entry of X only.
C15_DirectionalIndependence ==
  [][ (IsBlockEdit' /\ op'.target[1] \in DirectionalTables) =>
        /\ \A d \in Direction \ {TableDirection(op'.target[1])} :
             state'.calculator.directional_blocks[d] =
               state.calculator.directional_blocks[d]
        /\ LET before == state.calculator.directional_blocks[TableDirection(op'.target[1])]
               after == state'.calculator.directional_blocks[TableDirection(op'.target[1])]
           IN  /\ DOMAIN after = DOMAIN before \cup {op'.target[2]}
               /\ \A id \in DOMAIN before \ {op'.target[2]} : after[id] = before[id]
               /\ after[op'.target[2]] = ExpectedCount(op'.text)
    ]_vars

\* An edit of the Down field of T while the Up map holds a count of T.
C15_Witness ==
  /\ IsBlockEdit
  /\ op.target = <<"down_entries", "T">>
  /\ state.calculator.directional_blocks["Down"] = Insert(EmptyMap, "T", 3)
  /\ state.calculator.directional_blocks["Up"] = Insert(EmptyMap, "T", 12)

\* The requests of one cell found another borrow of that cell outstanding.
Overlapping(e) == e.flags[e.cell] # 0

\* C16: every borrow of the state cell is requested while no other borrow of
\* it is outstanding, and every exclusive borrow of the state cell or of the
\* block-entries cell is requested while that cell is not borrowed, from
\* construction on and in every edit, load and save.
C16_BorrowDiscipline ==
  \A i \in 1..Len(borrows) :
    /\ borrows[i].cell = "state" => ~Overlapping(borrows[i])
    /\ borrows[i].kind = "mut" => ~Overlapping(borrows[i])

\* A load whose field refresh ran change handlers, each taking the state
\* exclusively while block_entries was borrowed shared, and then took the
\* state exclusively itself.
C16_Witness ==
  /\ LoadOk
  /\ \E i \in 1..Len(borrows) :
       /\ borrows[i] = [cell |-> "state", kind |-> "mut",
                        flags |-> [state |-> 0, block_entries |-> 1]]
  /\ borrows[Len(borrows)] = [cell |-> "state", kind |-> "mut",
                              flags |-> Unborrowed]

\* The two-decimal text of the scalar values that occur.
TwoDecimalText(v) ==
  CASE v = 0 -> <<"0", ".", "0", "0">>
    [] v = 1000 -> <<"1", ".", "0", "0">>
    [] v = 1230 -> <<"1", ".", "2", "3">>
    [] v = 1234 -> <<"1", ".", "2", "3">>
    [] v = 1238 -> <<"1", ".", "2", "4">>
    [] v = 1240 -> <<"1", ".", "2", "4">>
    [] v = 2500 -> <<"2", ".", "5", "0">>
    [] v = 100000 -> <<"1", "0", "0", ".", "0", "0">>

\* Every field of a lookup table parses to the count of its id, an absent
\* key counting as 0.
CountsConsistent ==
  \A tb \in Tables : \A id \in BoundIds(tb) :
    parse_u64(block_entries[tb][id], 0) =
      (IF id \in DOMAIN BoundMap(state.calculator, tb)
       THEN BoundMap(state.calculator, tb)[id] ELSE 0)

Quiescent == ~fault /\ (IsEdit \/ LoadOk)

\* C17 as stated: after an edit or a successful load every scalar field's
\* text parses, with its default, to exactly the calculator's value, and
\* every collection field's text parses to the map's count.
C17_FieldsConsistent ==
  Quiescent =>
    /\ \A f \in ScalarFields :
         parse_f64(entry_text[f], ScalarDefault(f)) = state.calculator[f]
    /\ CountsConsistent

\* C17, amended: after an edit or a successful load every scalar field's
\* text parses to exactly the calculator's value or is the two-decimal
\* rendering of it, and every collection field's text parses to the count.
C17_FieldsConsistentRounded ==
  Quiescent =>
    /\ \A f \in ScalarFields :
         \/ parse_f64(entry_text[f], ScalarDefault(f)) = state.calculator[f]
         \/ entry_text[f] = TwoDecimalText(state.calculator[f])
    /\ CountsConsistent

\* A load left a field showing the rounded text of a value with three
\* decimals, beside fields showing counts of the loaded maps.
C17_Witness ==
  /\ LoadOk
  /\ state.calculator.container_multiplier = 1234
  /\ entry_text["container_multiplier"] = <<"1", ".", "2", "3">>
  /\ block_entries["up_entries"]["T"] = <<"1", "2">>

\* The ids the Catalog knows.
Catalog == Blocks \cup Thrusters

\* C18: every key of the calculator's undirected map and of each of its
\* directional maps is an id of the Catalog.
C18_KnownIds ==
  /\ DOMAIN state.calculator.blocks \subseteq Catalog
  /\ \A d \in DOMAIN state.calculator.directional_blocks :
       DOMAIN state.calculator.directional_blocks[d] \subseteq Catalog

\* C19: no operation ends in a panic; a load that fails returns
\* OpenFile or OpenDeserialize.
C19_NoFatalFault ==
  /\ ~fault
  /\ IsLoad => result \in {"Ok", "OpenFile", "OpenDeserialize"}

\* C20: the calculator's directional structure has all six directions, and
\* the per-direction accesses of the operation that ran last, an edit's
\* get_mut(..).unwrap() or a load's get(..).unwrap(), found their maps.
C20_SixDirections ==
  /\ DOMAIN state.calculator.directional_blocks = Direction
  /\ (IsBlockEdit \/ IsLoad) => result # "panic"

Constructed == nops = 0

\* C21 as stated: in the initial state the remembered directory and the
\* remembered file are both absent.
C21_InitiallyAbsent ==
  Constructed =>
    /\ state.current_file_path = None
    /\ state.current_dir_path = None

\* C21, amended: in the initial state the remembered file is absent and the
\* remembered directory is the working directory of the process, absent
\* only when that cannot be determined.
C21_InitialPaths ==
  Constructed =>
    /\ state.current_file_path = None
    /\ state.current_dir_path \in {<<"cwd">>, <<>>}

\* The window right after construction, with the working directory as
\* remembered directory.
C21_Witness ==
  /\ Constructed
  /\ op.name = "new"
  /\ state.current_dir_path = <<"cwd">>
  /\ state.current_file_path = <<>>

\* C22: recalculate, run in any reachable state of a live process, leaves the calculator, the
\* remembered paths and every field text as they are, and a second run
\* right after it leaves the Display Sink as the first run left it.
C22_RecalculatePure ==
  LET once == recalculate(Win)
      twice == recalculate(once)
  IN  ~fault =>
      /\ ~once.fault /\ ~twice.fault
      /\ once.state = state
      /\ once.entry_text = entry_text
      /\ once.block_entries = block_entries
      /\ twice.state = state
      /\ twice.entry_text = entry_text
      /\ twice.block_entries = block_entries
      /\ twice.display = once.display

\* A state whose calculator holds a zero count and a count of an id without
\* a field, in which recalculate has run and filled the Display Sink.
C22_Witness ==
  /\ "B" \in DOMAIN state.calculator.blocks
  /\ state.calculator.blocks["B"] = 0
  /\ UnknownId \in DOMAIN state.calculator.blocks
  /\ Len(recalcs) > 0
  /\ recalculate(Win).display # Blank
  /\ display # Blank

ErrorResults == {"OpenFile", "OpenDeserialize", "SaveFile", "SaveSerialize"}

\* C23: a load returns the I/O error exactly when the file cannot be opened
\* and the deserialize error exactly when the opened contents cannot be
\* interpreted; a save returns the I/O error exactly when the file cannot be
\* opened or created and the serialize error exactly when the write of the
\* opened file fails; an error carries the path of the operation, and no
\* path is carried without an error.
C23_ErrorKinds ==
  [][ /\ IsLoad' =>
           /\ result' = "OpenFile" <=> fs[op'.target] = None
           /\ result' = "OpenDeserialize" <=>
                (fs[op'.target] # None /\ ~from_json(fs[op'.target][1]).ok)
           /\ result' \notin {"SaveFile", "SaveSerialize"}
      /\ IsSave' =>
           /\ result' = "SaveFile" <=> op'.target \in {NoDirPath}
           /\ result' = "SaveSerialize" <=> op'.target \in {JunkPath}
           /\ result' \notin {"OpenFile", "OpenDeserialize"}
      /\ result' \in ErrorResults => error_path' = <<op'.target>>
      /\ result' \notin ErrorResults => error_path' = <<>>
    ]_vars

\* A load of an existing file whose contents cannot be interpreted returned
\* the deserialize error with the file's path.
C23_Witness ==
  /\ IsLoad
  /\ fs[op.target] # None
  /\ result = "OpenDeserialize"
  /\ error_path = <<op.target>>

\* The maps of a calculator other than the one a lookup table is bound to.
OtherMapsUnchanged(c, d, tb) ==
  /\ tb # "entries" => d.blocks = c.blocks
  /\ DOMAIN d.directional_blocks = DOMAIN c.directional_blocks
  /\ \A dir \in DOMAIN c.directional_blocks :
       (tb = "entries" \/ dir # TableDirection(tb)) =>
         d.directional_blocks[dir] = c.directional_blocks[dir]

\* C24: a scalar edit leaves every other scalar and every map unchanged; a
\* collection edit leaves every scalar and every other map unchanged and, in
\* its own map, sets exactly the key of its item to the parsed count (0
\* included) while every key present before stays present with its count;
\* neither changes the remembered directory or file.
C24_EditFrame ==
  [][ /\ IsScalarEdit' =>
           /\ \A g \in ScalarFields \ {op'.target[2]} :
                state'.calculator[g] = state.calculator[g]
           /\ state'.calculator.blocks = state.calculator.blocks
           /\ state'.calculator.directional_blocks =
                state.calculator.directional_blocks
      /\ IsBlockEdit' =>
           /\ \A g \in ScalarFields : state'.calculator[g] = state.calculator[g]
           /\ OtherMapsUnchanged(state.calculator, state'.calculator,
                                 op'.target[1])
           /\ DOMAIN BoundMap(state'.calculator, op'.target[1]) =
                DOMAIN BoundMap(state.calculator, op'.target[1])
                  \cup {op'.target[2]}
           /\ BoundMap(state'.calculator, op'.target[1])[op'.target[2]] =
                ExpectedCount(op'.text)
           /\ \A id \in DOMAIN BoundMap(state.calculator, op'.target[1])
                          \ {op'.target[2]} :
                BoundMap(state'.calculator, op'.target[1])[id] =
                  BoundMap(state.calculator, op'.target[1])[id]
      /\ IsEdit' =>
           /\ state'.current_dir_path = state.current_dir_path
           /\ state'.current_file_path = state.current_file_path
    ]_vars

\* After a load, the field of A was emptied: A stays as a key with count 0
\* beside the loaded keys B and U.
C24_Witness ==
  /\ IsBlockEdit
  /\ op.target = <<"entries", "A">>
  /\ op.text = <<>>
  /\ DOMAIN state.calculator.blocks = {"A", "B", "U"}
  /\ state.calculator.blocks["A"] = 0
  /\ state.calculator.blocks["U"] = 7
  /\ state.current_file_path = <<DocPath>>

\* The lookup table of each direction.
TableOf(d) == CHOOSE tb \in DirectionalTables : TableDirection(tb) = d

\* C25: each directional lookup table has exactly one field per thruster; an
\* edit of the field of X in the table of D stores the parsed count under X
\* in D's map; a load leaves in that field the count X has in D's loaded
\* map, and the empty text when D's loaded map has no X.
C25_DirectionalWiring ==
  [][ /\ \A d \in Direction : DOMAIN block_entries'[TableOf(d)] = Thrusters
      /\ (IsBlockEdit' /\ op'.target[1] \in DirectionalTables) =>
           /\ op'.target[2] \in
                DOMAIN state'.calculator.directional_blocks[TableDirection(op'.target[1])]
           /\ state'.calculator.directional_blocks[TableDirection(op'.target[1])][op'.target[2]]
                = ExpectedCount(op'.text)
           /\ block_entries'[op'.target[1]][op'.target[2]] = op'.text
      /\ LoadOk' =>
           \A d \in Direction : \A id \in Thrusters :
             LET loaded == from_json(fs[op'.target][1]).calculator.directional_blocks[d]
             IN  block_entries'[TableOf(d)][id] =
                   (IF id \in DOMAIN loaded THEN CountText(loaded[id]) ELSE <<>>)
    ]_vars

\* A load of a document with a count of T in one direction only: the field
\* of that direction shows the count and the five other fields of T are
\* empty.
C25_Witness ==
  /\ LoadOk
  /\ \E d \in Direction :
       /\ state.calculator.directional_blocks[d] = [id \in {"T"} |-> 12]
       /\ block_entries[TableOf(d)]["T"] = <<"1", "2">>
       /\ \A e \in Direction \ {d} :
            /\ block_entries[TableOf(e)]["T"] = <<>>
            /\ "T" \notin DOMAIN state.calculator.directional_blocks[e]

\* The ids of a map of a deserialized calculator that have no field in the
\* lookup table the map is shown in.
Unbound(c, tb) == DOMAIN BoundMap(c, tb) \ BoundIds(tb)

\* C26: a load of a well-formed document with all six directions and an id
\* that has no field in its lookup table succeeds; the installed calculator
\* holds that id with its count; every field shows what the loaded map holds
\* for the field's own id, and nothing else.
C26_UnboundIdInstalled ==
  [][ (/\ IsLoad'
       /\ fs[op'.target] # None
       /\ from_json(fs[op'.target][1]).ok
       /\ DOMAIN from_json(fs[op'.target][1]).calculator.directional_blocks
            = Direction
       /\ \E tb \in Tables :
            Unbound(from_json(fs[op'.target][1]).calculator, tb) # {})
      =>
        LET loaded == from_json(fs[op'.target][1]).calculator
        IN  /\ result' = "Ok"
            /\ \A tb \in Tables :
                 /\ \A id \in Unbound(loaded, tb) :
                      /\ id \in DOMAIN BoundMap(state'.calculator, tb)
                      /\ BoundMap(state'.calculator, tb)[id] =
                           BoundMap(loaded, tb)[id]
                 /\ DOMAIN block_entries'[tb] = BoundIds(tb)
                 /\ \A id \in BoundIds(tb) :
                      block_entries'[tb][id] =
                        (IF id \in DOMAIN BoundMap(loaded, tb)
                         THEN CountText(BoundMap(loaded, tb)[id]) ELSE <<>>)
    ]_vars

\* The document with the unknown id U was loaded: U is in the calculator
\* with its count 7 and no field shows a 7.
C26_Witness ==
  /\ LoadOk
  /\ UnknownId \in DOMAIN state.calculator.blocks
  /\ state.calculator.blocks[UnknownId] = 7
  /\ block_entries["entries"] = [id \in {"A", "B"} |->
                                   IF id = "A" THEN <<"3">> ELSE <<"0">>]
  /\ \A tb \in Tables : \A id \in BoundIds(tb) : block_entries[tb][id] # <<"7">>

\* C27: right after construction the Display Sink holds calculate of the
\* default calculator, put there by one recalculation that read the default
\* calculator and ran after every borrow that registers a binding.
C27_DisplayAfterConstruction ==
  Constructed =>
    /\ state.calculator = DefaultCalculator
    /\ display = calculate(DefaultCalculator)
    /\ recalcs = <<DefaultCalculator>>
    /\ Len(borrows) > 1
    /\ borrows[Len(borrows)].cell = "state"
    /\ \A i \in 1..(Len(borrows) - 1) : borrows[i].cell = "block_entries"

\* The constructed window: the labels are filled and every field is empty.
C27_Witness ==
  /\ Constructed
  /\ display # Blank
  /\ display.blocks = [id \in Blocks |-> 0]
  /\ \A f \in ScalarFields : entry_text[f] = <<>>
  /\ Len(recalcs) = 1

Cancelled ==
  /\ op.name \in {"open", "save_as", "save_or_save_as"}
  /\ op.target = Cancel

\* C28: when the dialog of open, save_as or save_or_save_as is cancelled, the
\* operation ends there: no file is read or written, no exclusive borrow is
\* taken, no error is returned, and the calculator, the remembered paths,
\* every field text and the Display Sink stay as they were.
C28_CancelFrame ==
  [][ Cancelled' =>
        /\ op'.dialog
        /\ result' = "cancel"
        /\ error_path' = <<>>
        /\ state' = state
        /\ entry_text' = entry_text
        /\ block_entries' = block_entries
        /\ display' = display
        /\ fs' = fs
        /\ recalcs' = <<>>
        /\ \A i \in 1..Len(borrows') : borrows'[i].kind = "shared"
    ]_vars

\* A cancelled save dialog of a window whose calculator the user had edited
\* and that remembers no file.
C28_Witness ==
  /\ Cancelled
  /\ op.name \in {"save_as", "save_or_save_as"}
  /\ result = "cancel"
  /\ state.current_file_path = <<>>
  /\ state.calculator # DefaultCalculator
  /\ fs = InitFs

\* C29: an update with the message of scalar F leaves the other eight
\* attributes and both maps of calc and the other eight bindings as they
\* were; F's binding holds the typed text and F's attribute what it parses
\* to, F's default when it does not parse.
C29_UpdateFrame ==
  [][ message'.name = "update" =>
        /\ \A g \in ScalarFields \ {message'.field} :
             /\ calc'[g] = calc[g]
             /\ option_input'[g] = option_input[g]
        /\ calc'.blocks = calc.blocks
        /\ calc'.directional_blocks = calc.directional_blocks
        /\ option_input'[message'.field].text = message'.text
        /\ option_input'[message'.field].default =
             option_input[message'.field].default
        /\ calc'[message'.field] =
             ExpectedScalar(message'.text, option_input[message'.field].default)
    ]_vars

\* The IceOnlyFill message with the text 2.5 arrived while the calculator
\* with nine different scalars was loaded.
C29_Witness ==
  /\ message = [name |-> "update", field |-> "ice_only_fill",
                text |-> <<"2", ".", "5">>]
  /\ calc.ice_only_fill = 2500
  /\ calc.ore_only_fill = 75000
  /\ option_input["ore_only_fill"].text = <<"7", "5">>

\* The "{}" text of the scalar values of the loaded calculators.
DisplayText(v) ==
  CASE v = 0 -> <<"0">>
    [] v = 1000 -> <<"1">>
    [] v = 1050 -> <<"1", ".", "0", "5">>
    [] v = 1234 -> <<"1", ".", "2", "3", "4">>
    [] v = 1238 -> <<"1", ".", "2", "3", "8">>
    [] v = 2500 -> <<"2", ".", "5">>
    [] v = 10000 -> <<"1", "0">>
    [] v = 20000 -> <<"2", "0">>
    [] v = 30000 -> <<"3", "0">>
    [] v = 50000 -> <<"5", "0">>
    [] v = 75000 -> <<"7", "5">>
    [] v = 100000 -> <<"1", "0", "0">>

\* The default of each scalar and its placeholder.
OptionDefault(field) ==
  CASE field \in {"gravity_multiplier", "container_multiplier",
                  "planetary_influence"} -> [v |-> 1000, t |-> <<"1", ".", "0">>]
    [] field \in {"ice_only_fill", "ore_only_fill"} ->
         [v |-> 100000, t |-> <<"1", "0", "0", ".", "0">>]
    [] field = "additional_mass" -> [v |-> 0, t |-> <<"0">>]
    [] OTHER -> [v |-> 0, t |-> <<"0", ".", "0">>]

\* C30: after reload(calc) and after new(default, loaded) every binding's
\* text is the "{}" text of the same-named attribute of the calculator handed
\* in, which is the page's calculator unchanged, and every binding's default
\* and placeholder are those of the default calculator.
C30_ReloadAndNew ==
  message.name \in {"reload", "new"} =>
    /\ calc \in LoadedCalculators
    /\ \A field \in ScalarFields :
         /\ option_input[field].text = DisplayText(calc[field])
         /\ option_input[field].default = OptionDefault(field).v
         /\ option_input[field].placeholder = OptionDefault(field).t

\* After an update had changed a text and an attribute, a reload with the
\* calculator of nine different scalars put its texts into the bindings.
C30_Witness ==
  /\ message.name = "reload"
  /\ nops = 2
  /\ calc = OtherCalculator
  /\ option_input["any_fill_with_ore"].text = <<"2", "0">>
  /\ option_input["any_fill_with_ice"].text = <<"1", "0">>
  /\ option_input["container_multiplier"].default = 1000

====
